---- MODULE Spec2Model ----
(***************************************************************************)
(* Model of the dispatch-and-aggregation core of "Calculate Anything":     *)
(*   - MultiHandler (calculate_anything/query/multi_handler.py): registry  *)
(*     of interpreters, subset filter, failure isolation, ordered merge;    *)
(*   - Plugin (__init__.py): configuration, trigger resolution             *)
(*     (getCalculateAnythingResults), buildResults and the placeholder.    *)
(* Strings are sequences of one-character strings.                         *)
(***************************************************************************)
EXTENDS Integers, Sequences, FiniteSets, TLC

\* ------------------------------------------------------------------ bounds
MaxEmit == 2        \* results one interpreter invocation may return
MaxOrder == 1       \* result orders range over 0..MaxOrder
MaxResults == 2     \* results emitted within one handle call
MaxFaults == 2      \* interpreters raising within one handle call
MaxWrites == 1      \* configuration writes in one behaviour

\* --------------------------------------------------------------- MultiHandler
\* multi_handler.py:14-23, the registry in construction order
Registry ==
  << "UnitsQueryHandler", "CalculatorQueryHandler", "PercentagesQueryHandler",
     "TimeQueryHandler", "Base10QueryHandler", "Base16QueryHandler",
     "Base8QueryHandler", "Base2QueryHandler" >>

Classes == { Registry[k] : k \in 1..Len(Registry) }

VARIABLES
  mh_handlers,   \* MultiHandler._handlers
  pc,            \* position of the current handle call: idle, loop, returned, raised
  caller,        \* who called handle: "direct" or "plugin"
  query,         \* handle's query argument
  handlers,      \* handle's local set(handlers)
  idx,           \* position of the for loop in _handlers: the next handler to invoke
  results,       \* handle's local results list
  ret,           \* the list handle returned
  calls,         \* log: the invocations handler.handle(query) made by this call
  emitted,       \* log: what each invocation returned
  logged,        \* log: the handlers whose exception was logged
  self,          \* the Plugin's fields
  config,        \* the plugin's configuration store (readConfig/writeConfig)
  writes,        \* log: configuration writes made so far
  frame          \* the current handleTriggerQuery call

mhvars == << mh_handlers, pc, caller, query, handlers, idx, results, ret,
             calls, emitted, logged >>
plvars == << self, config, writes, frame >>
vars == << mh_handlers, pc, caller, query, handlers, idx, results, ret,
           calls, emitted, logged, self, config, writes, frame >>

\* ---------------------------------------------------------------- results
\* What an interpreter's handle(query) hands back for one result: kind says
\* whether its conversion and its order behave.
ResultKinds == { "ok", "conv_raises", "no_order", "none_order" }

RawResult(h, e, kind, order) ==
  [ handler |-> h, emission |-> e, kind |-> kind, order |-> order, raw |-> TRUE ]

\* r.to_query_result(): the displayable result carrying r's order
to_query_result(r) ==
  [ handler |-> r.handler, emission |-> r.emission, kind |-> r.kind,
    order |-> r.order, raw |-> FALSE ]

\* to_query_result() raises for this result
ConversionRaises(r) == r.kind = "conv_raises"

\* the lazy map(...) consumed by results.extend: items are appended until one
\* conversion raises
RECURSIVE ConvertedPrefix(_)
ConvertedPrefix(rs) ==
  IF rs = << >> \/ ConversionRaises(Head(rs)) THEN << >>
  ELSE << to_query_result(Head(rs)) >> \o ConvertedPrefix(Tail(rs))

\* sorted(results, key=lambda result: result.order) raises: a key that cannot
\* be read always does, a key that cannot be compared does once there is a
\* second element to compare it with
SortRaises(rs) ==
  \/ \E k \in 1..Len(rs) : rs[k].kind = "no_order"
  \/ Len(rs) >= 2 /\ \E k \in 1..Len(rs) : rs[k].kind = "none_order"

\* an insertion that puts r before the elements of equal key
RECURSIVE InsertUnstable(_, _)
InsertUnstable(sorted, r) ==
  IF sorted = << >> THEN << r >>
  ELSE IF r.order <= Head(sorted).order THEN << r >> \o sorted
  ELSE << Head(sorted) >> \o InsertUnstable(Tail(sorted), r)

\* multi_handler.py:44: r goes after every element whose key is not greater,
\* so equal keys keep their order
RECURSIVE Insert(_, _)
Insert(sorted, r) ==
  IF sorted = << >> THEN << r >>
  ELSE IF r.order < Head(sorted).order THEN << r >> \o sorted
  ELSE << Head(sorted) >> \o Insert(Tail(sorted), r)

\* Python's sorted(): ascending by key, stable
RECURSIVE Sorted(_)
Sorted(rs) ==
  IF rs = << >> THEN << >>
  ELSE Insert(Sorted(SubSeq(rs, 1, Len(rs) - 1)), rs[Len(rs)])

\* ------------------------------------------------------ interpreter stubs
\* the concatenation of a list of lists
RECURSIVE Flatten(_)
Flatten(ss) == IF ss = << >> THEN << >> ELSE Head(ss) \o Flatten(Tail(ss))

\* the shapes one returned result may take
ResultChoices ==
  { [ kind |-> "ok", order |-> o ] : o \in 0..MaxOrder }
    \cup { [ kind |-> k, order |-> 0 ] : k \in ResultKinds \ { "ok" } }

\* the non-empty lists of at most room results handler h may return from
\* handle(query)
Emissions(h, room) ==
  UNION { { [ e \in 1..n |-> RawResult(h, e, f[e].kind, f[e].order) ] :
              f \in [ 1..n -> ResultChoices ] } :
          n \in 1..(IF room < MaxEmit THEN room ELSE MaxEmit) }

\* ------------------------------------------------------ MultiHandler.handle
\* multi_handler.py:30, the negation of the skip test
Eligible(hs, h) == ~ (hs # { } /\ h \notin hs)

\* multi_handler.py:29-31: from position i the loop passes over the handlers
\* the subset leaves out, up to the next one it invokes or the end of the list
RECURSIVE Continue(_, _, _)
Continue(reg, hs, i) ==
  IF i <= Len(reg) /\ ~ Eligible(hs, reg[i]) THEN Continue(reg, hs, i + 1) ELSE i

\* multi_handler.py:26-31: handle(query, *handlers) is entered
HandleEnter(q, hs, who) ==
  /\ pc = "idle"
  /\ pc' = "loop"
  /\ caller' = who
  /\ query' = q
  /\ handlers' = hs
  /\ results' = << >>
  /\ idx' = Continue(mh_handlers, hs, 1)
  /\ ret' = << >>
  /\ calls' = << >>
  /\ emitted' = << >>
  /\ logged' = << >>
  /\ UNCHANGED mh_handlers

\* multi_handler.py:32-39: handler.handle(query) raises an Exception
StepRaises ==
  /\ pc = "loop" /\ idx <= Len(mh_handlers)
  /\ Len(logged) < MaxFaults
  /\ calls' = Append(calls, [ handler |-> mh_handlers[idx], query |-> query,
                              outcome |-> "raised" ])
  /\ logged' = Append(logged, mh_handlers[idx])
  /\ idx' = Continue(mh_handlers, handlers, idx + 1)
  /\ UNCHANGED << mh_handlers, pc, caller, query, handlers, results, ret, emitted >>

\* multi_handler.py:32-39: handler.handle(query) returns None or an empty list
StepNothing ==
  /\ pc = "loop" /\ idx <= Len(mh_handlers)
  /\ calls' = Append(calls, [ handler |-> mh_handlers[idx], query |-> query,
                              outcome |-> "returned" ])
  /\ emitted' = Append(emitted, << >>)
  /\ idx' = Continue(mh_handlers, handlers, idx + 1)
  /\ UNCHANGED << mh_handlers, pc, caller, query, handlers, results, ret, logged >>

\* multi_handler.py:40-42: the conversions run inside results.extend, outside the
\* try of line 32; one that raises leaves handle with what was appended so far
Extend(rs) ==
  IF Len(ConvertedPrefix(rs)) = Len(rs)
  THEN [ results |-> results \o ConvertedPrefix(rs), pc |-> "loop" ]
  ELSE [ results |-> results \o ConvertedPrefix(rs), pc |-> "raised" ]

\* multi_handler.py:32-42: handler.handle(query) returns a non-empty list
StepReturns ==
  /\ pc = "loop" /\ idx <= Len(mh_handlers)
  /\ \E rs \in Emissions(mh_handlers[idx], MaxResults - Len(Flatten(emitted))) :
       /\ calls' = Append(calls, [ handler |-> mh_handlers[idx], query |-> query,
                                   outcome |-> "returned" ])
       /\ emitted' = Append(emitted, rs)
       /\ results' = Extend(rs).results
       /\ pc' = Extend(rs).pc
  /\ idx' = Continue(mh_handlers, handlers, idx + 1)
  /\ UNCHANGED << mh_handlers, caller, query, handlers, ret, logged >>

\* multi_handler.py:44: the loop is over, the sorted list is returned, or the
\* sort raises
Return(rs) ==
  IF SortRaises(rs) THEN [ pc |-> "raised", ret |-> << >> ]
  ELSE [ pc |-> "returned", ret |-> Sorted(rs) ]

MHReturn ==
  /\ pc = "loop" /\ idx > Len(mh_handlers)
  /\ pc' = Return(results).pc
  /\ ret' = Return(results).ret
  /\ UNCHANGED << mh_handlers, caller, query, handlers, idx, results,
                  calls, emitted, logged >>

\* ------------------------------------------------------------------ strings
Whitespace == { " ", "\t", "\n" }
Digits == { "0", "1", "2", "3", "4", "5", "6", "7", "8", "9" }
LowerCase ==
  << "a", "b", "c", "d", "e", "f", "g", "h", "i", "j", "k", "l", "m",
     "n", "o", "p", "q", "r", "s", "t", "u", "v", "w", "x", "y", "z" >>
UpperCase ==
  << "A", "B", "C", "D", "E", "F", "G", "H", "I", "J", "K", "L", "M",
     "N", "O", "P", "Q", "R", "S", "T", "U", "V", "W", "X", "Y", "Z" >>

\* str.isalpha() of one character
isalpha(c) == \E k \in 1..26 : c = LowerCase[k] \/ c = UpperCase[k]

\* str.lower()
lowerChar(c) ==
  IF \E k \in 1..26 : c = UpperCase[k]
  THEN LowerCase[CHOOSE k \in 1..26 : c = UpperCase[k]]
  ELSE c

lower(s) == [ k \in 1..Len(s) |-> lowerChar(s[k]) ]

RECURSIVE lstrip(_)
lstrip(s) ==
  IF s # << >> /\ Head(s) \in Whitespace THEN lstrip(Tail(s)) ELSE s

RECURSIVE rstrip(_)
rstrip(s) ==
  IF s # << >> /\ s[Len(s)] \in Whitespace
  THEN rstrip(SubSeq(s, 1, Len(s) - 1)) ELSE s

\* str.strip()
strip(s) == rstrip(lstrip(s))

\* the longest prefix of s without whitespace
RECURSIVE Word(_)
Word(s) ==
  IF s = << >> \/ Head(s) \in Whitespace THEN << >>
  ELSE << Head(s) >> \o Word(Tail(s))

\* str.split(None, 1): the first whitespace-delimited token and, when anything
\* but whitespace follows it, the remainder (its trailing whitespace kept)
split1(s) ==
  LET t == lstrip(s)
      w == Word(t)
      r == lstrip(SubSeq(t, Len(w) + 1, Len(t)))
  IN  IF t = << >> THEN << >>
      ELSE IF r = << >> THEN << w >>
      ELSE << w, r >>

\* __init__.py:371, the characters of calc_pattern's class
CalcChars ==
  Digits \cup Whitespace
    \cup { "+", "-", "*", "/", "(", ")", ".", "^", "%" }
    \cup { "s", "q", "r", "t", "l", "o", "g", "e", "x", "p" }

\* __init__.py:371-373: calc_pattern.match(user_input.strip())
is_calc_input(user_input) ==
  /\ strip(user_input) # << >>
  /\ \A k \in 1..Len(strip(user_input)) : strip(user_input)[k] \in CalcChars

\* ------------------------------------------------------------ configuration
\* __init__.py:60
DEFAULT_SHOW_EMPTY_PLACEHOLDER == TRUE

\* the six trigger properties, in the order getCalculateAnythingResults tests them
TriggerKeys ==
  << "triggerCalculator", "triggerTime", "triggerHex", "triggerBinary",
     "triggerDecimal", "triggerOctal" >>

\* __init__.py:136-141, the default of each trigger
DefaultTrigger(key) ==
  CASE key = "triggerCalculator" -> << "=" >>
    [] key = "triggerTime" -> << "t", "i", "m", "e" >>
    [] key = "triggerHex" -> << "h", "e", "x" >>
    [] key = "triggerBinary" -> << "b", "i", "n" >>
    [] key = "triggerDecimal" -> << "d", "e", "c" >>
    [] key = "triggerOctal" -> << "o", "c", "t" >>

\* a key nothing was written to
Unset(v) == [ has |-> FALSE, value |-> v ]

\* the configuration store before anything is written
EmptyConfig ==
  [ show_empty_placeholder |-> Unset(FALSE),
    triggerCalculator |-> Unset(<< >>), triggerTime |-> Unset(<< >>),
    triggerHex |-> Unset(<< >>), triggerBinary |-> Unset(<< >>),
    triggerDecimal |-> Unset(<< >>), triggerOctal |-> Unset(<< >>) ]

\* readConfig(key, str) or default: an unset key reads None, and None and ""
\* are both falsy
ReadStrOr(cfg, key, default) ==
  IF cfg[key].has /\ cfg[key].value # << >> THEN cfg[key].value ELSE default

\* readConfig(key, bool) or default: an unset key reads None, and None and
\* False are both falsy
ReadBoolOr(cfg, key, default) ==
  IF cfg[key].has /\ cfg[key].value THEN TRUE ELSE default

\* __init__.py:108-151, Plugin.__init__: the fields read from the store
PluginNew(cfg) ==
  [ showEmptyPlaceholder |->
      ReadBoolOr(cfg, "show_empty_placeholder", DEFAULT_SHOW_EMPTY_PLACEHOLDER),
    triggerCalculator |-> ReadStrOr(cfg, "triggerCalculator", DefaultTrigger("triggerCalculator")),
    triggerTime |-> ReadStrOr(cfg, "triggerTime", DefaultTrigger("triggerTime")),
    triggerHex |-> ReadStrOr(cfg, "triggerHex", DefaultTrigger("triggerHex")),
    triggerBinary |-> ReadStrOr(cfg, "triggerBinary", DefaultTrigger("triggerBinary")),
    triggerDecimal |-> ReadStrOr(cfg, "triggerDecimal", DefaultTrigger("triggerDecimal")),
    triggerOctal |-> ReadStrOr(cfg, "triggerOctal", DefaultTrigger("triggerOctal")) ]

\* no handleTriggerQuery call has been made
NoFrame ==
  [ status |-> "none", user_input |-> << >>, trigger |-> << >>,
    query_string |-> << >>, mode |-> "", handlers |-> << >>,
    query_str |-> << >>, items |-> << >>, added |-> FALSE ]

\* ------------------------------------------------------------ trigger resolver
\* __init__.py:373-380: the trigger and the query without it
Resolve(user_input) ==
  LET tokens == split1(user_input)
      trigger == IF tokens # << >> /\ isalpha(tokens[1][1])
                 THEN lower(tokens[1]) ELSE << >>
  IN  IF is_calc_input(user_input)
      THEN [ trigger |-> << >>, query_nokw |-> strip(user_input) ]
      ELSE [ trigger |-> trigger,
             query_nokw |-> IF trigger = << >> THEN strip(user_input)
                            ELSE IF Len(tokens) > 1 THEN tokens[2] ELSE << >> ]

\* __init__.py:383-397: the first case whose guard holds decides the mode
\* buildResults is called in
Match(t, plugin) ==
  IF t = plugin.triggerCalculator THEN "calculator"
  ELSE IF t = plugin.triggerTime THEN "time"
  ELSE IF t = plugin.triggerHex THEN "hex"
  ELSE IF t = plugin.triggerBinary THEN "bin"
  ELSE IF t = plugin.triggerDecimal THEN "dec"
  ELSE IF t = plugin.triggerOctal THEN "oct"
  ELSE "calculator"

\* the keyword attribute of an interpreter
keyword(h) ==
  CASE h = "CalculatorQueryHandler" -> << "=" >>
    [] h = "TimeQueryHandler" -> << "t", "i", "m", "e" >>
    [] h = "Base10QueryHandler" -> << "d", "e", "c" >>
    [] h = "Base16QueryHandler" -> << "h", "e", "x" >>
    [] h = "Base8QueryHandler" -> << "o", "c", "t" >>
    [] h = "Base2QueryHandler" -> << "b", "i", "n" >>

\* __init__.py:408-438: the handlers buildResults passes to MultiHandler.handle
BuildHandlers(mode) ==
  CASE mode = "time" -> << "TimeQueryHandler" >>
    [] mode = "dec" -> << "Base10QueryHandler" >>
    [] mode = "hex" -> << "Base16QueryHandler" >>
    [] mode = "oct" -> << "Base8QueryHandler" >>
    [] mode = "bin" -> << "Base2QueryHandler" >>
    [] OTHER -> << "UnitsQueryHandler", "CalculatorQueryHandler",
                   "PercentagesQueryHandler" >>

\* __init__.py:408-438: the interpreter whose keyword prefixes the query
BuildKeywordOf(mode) ==
  IF Len(BuildHandlers(mode)) = 1 THEN BuildHandlers(mode)[1]
  ELSE "CalculatorQueryHandler"

\* __init__.py:410-436: query_str = keyword + " " + query_string
BuildQueryStr(mode, query_string) ==
  keyword(BuildKeywordOf(mode)) \o << " " >> \o query_string

\* ------------------------------------------------------------------ inputs
\* texts typed into a trigger's line edit of the configuration widget
KeywordTexts ==
  { << >>,
    << "T", "i", "m", "e" >>,
    << "c", "a", "l", "c", " " >>,
    << "l", "o", "g" >>,
    << "t", "i", "m" >> }

\* query.string values the host hands to handleTriggerQuery
RawInputs ==
  { << >>,
    << " " >>,
    << "2", "+", "2" >>,
    << " ", "2", "+", "2", " " >>,
    << "5", " ", "m" >>,
    << "t", "i", "m", "e" >>,
    << "t", "i", "m", "e", " ", "5" >>,
    << "T", "i", "m", "e", " ", " ", "5", " " >>,
    << "t", "i", "m", "e", "s", " ", "5" >>,
    << "t", "i", "m", " ", "5" >>,
    << "b", "a", "n" >>,
    << "t", "e", "n", " ", "m" >>,
    << "h", "e", "x", " ", "f", "f" >>,
    << "b", "i", "n", " ", "1" >>,
    << "d", "e", "c", " ", "1" >>,
    << "o", "c", "t", " ", "1" >>,
    << "l", "o", "g", " ", "5" >>,
    << "c", "a", "l", "c", " ", "1" >>,
    << "=", " ", "2" >> }

\* query strings of direct MultiHandler.handle calls
Queries ==
  { << "=", " ", "1" >>,
    << "t", "i", "m", "e", " ", "x" >> }

\* the calculator family of buildResults
CalculatorFamily ==
  { "UnitsQueryHandler", "CalculatorQueryHandler", "PercentagesQueryHandler" }

\* *handlers arguments of direct MultiHandler.handle calls
Subsets ==
  { S \in SUBSET Classes : Cardinality(S) <= 1 } \cup { CalculatorFamily }

\* --------------------------------------------------------------- the plugin
\* __init__.py:214-217: the showEmptyPlaceholder setter
SetShowEmptyPlaceholder(value) ==
  /\ pc = "idle" /\ frame.status = "none" /\ writes < MaxWrites
  /\ self' = [ self EXCEPT !.showEmptyPlaceholder = value ]
  /\ config' = [ config EXCEPT !.show_empty_placeholder = [ has |-> TRUE, value |-> value ] ]
  /\ writes' = writes + 1
  /\ UNCHANGED << frame, mh_handlers, pc, caller, query, handlers, idx, results,
                  ret, calls, emitted, logged >>

\* __init__.py:223-271: the six trigger setters strip the text and store it
SetTrigger(key, value) ==
  /\ pc = "idle" /\ frame.status = "none" /\ writes < MaxWrites
  /\ self' = [ self EXCEPT ![key] = strip(value) ]
  /\ config' = [ config EXCEPT ![key] = [ has |-> TRUE, value |-> strip(value) ] ]
  /\ writes' = writes + 1
  /\ UNCHANGED << frame, mh_handlers, pc, caller, query, handlers, idx, results,
                  ret, calls, emitted, logged >>

\* the host restarts: Plugin.__init__ (__init__.py:108-151) reads the store, and
\* the MultiHandler singleton is constructed anew (multi_handler.py:13-24)
Restart ==
  /\ pc = "idle" /\ frame.status = "none"
  /\ self' = PluginNew(config)
  /\ frame' = NoFrame
  /\ mh_handlers' = Registry
  /\ UNCHANGED << pc, caller, query, handlers, idx, results, ret, calls,
                  emitted, logged, config, writes >>

\* __init__.py:355-356: an empty query with the placeholder switched off
EarlyReturn(user_input, plugin) ==
  user_input = << >> /\ ~ plugin.showEmptyPlaceholder

\* __init__.py:348-442: handleTriggerQuery up to the call of MultiHandler.handle
HandleTriggerQuery(user_input) ==
  /\ pc = "idle" /\ frame.status = "none"
  /\ IF EarlyReturn(user_input, self)
     THEN /\ frame' = [ NoFrame EXCEPT !.status = "skipped", !.user_input = user_input ]
          /\ UNCHANGED mhvars
     ELSE LET r == Resolve(user_input)
              mode == Match(r.trigger, self)
          IN  /\ frame' = [ status |-> "aggregating", user_input |-> user_input,
                            trigger |-> r.trigger, query_string |-> r.query_nokw,
                            mode |-> mode, handlers |-> BuildHandlers(mode),
                            query_str |-> BuildQueryStr(mode, r.query_nokw),
                            items |-> << >>, added |-> FALSE ]
              /\ HandleEnter(BuildQueryStr(mode, r.query_nokw),
                             { BuildHandlers(mode)[k] : k \in 1..Len(BuildHandlers(mode)) },
                             "plugin")
  /\ UNCHANGED << self, config, writes >>

\* __init__.py:444-467: one StandardItem per result, identified by its index
Item(i, r) ==
  [ kind |-> "result", index |-> i, handler |-> r.handler,
    emission |-> r.emission, mode |-> "" ]

\* __init__.py:476-492: the single "no result" item, described by the mode
buildPlaceholder(mode, query_string) ==
  << [ kind |-> "no_result", index |-> 0, handler |-> "", emission |-> 0,
       mode |-> mode ] >>

\* __init__.py:471 with the test for a blank query left out
ShowPlaceholderFlagOnly(items, query_string, plugin) ==
  items = << >> /\ plugin.showEmptyPlaceholder

\* __init__.py:471: when the placeholder replaces an empty item list
ShowPlaceholder(items, query_string, plugin) ==
  items = << >> /\ (strip(query_string) = << >> \/ plugin.showEmptyPlaceholder)

\* __init__.py:444-474: the items buildResults returns for the aggregated results
BuildItems(rs, mode, query_string, plugin) ==
  LET items == [ k \in 1..Len(rs) |-> Item(k - 1, rs[k]) ]
  IN  IF ShowPlaceholder(items, query_string, plugin)
      THEN buildPlaceholder(mode, query_string)
      ELSE items

\* __init__.py:442-474 and 359-361: MultiHandler.handle has returned to
\* buildResults, which builds the items; handleTriggerQuery adds them when
\* there are any
BuildResultsReturn ==
  /\ caller = "plugin" /\ pc = "returned" /\ frame.status = "aggregating"
  /\ frame' = [ frame EXCEPT
                  !.status = "done",
                  !.items = BuildItems(ret, frame.mode, frame.query_string, self),
                  !.added = BuildItems(ret, frame.mode, frame.query_string, self) # << >> ]
  /\ UNCHANGED << self, config, writes >>
  /\ UNCHANGED mhvars

\* __init__.py:442 and 359: MultiHandler.handle raised; nothing catches it in
\* buildResults, getCalculateAnythingResults or handleTriggerQuery
BuildResultsRaise ==
  /\ caller = "plugin" /\ pc = "raised" /\ frame.status = "aggregating"
  /\ frame' = [ frame EXCEPT !.status = "raised" ]
  /\ UNCHANGED << self, config, writes >>
  /\ UNCHANGED mhvars

\* the mh_* variables as they are between two handle calls: handle keeps
\* nothing but the registry (multi_handler.py:27-28, its locals)
HandleLeave ==
  /\ pc' = "idle"
  /\ caller' = "direct"
  /\ query' = << >>
  /\ handlers' = { }
  /\ idx' = 1
  /\ results' = << >>
  /\ ret' = << >>
  /\ calls' = << >>
  /\ emitted' = << >>
  /\ logged' = << >>
  /\ UNCHANGED mh_handlers

\* __init__.py:356 and 361: handleTriggerQuery is over and the host has the
\* items, or the exception
QueryReturn ==
  /\ frame.status \in { "skipped", "done", "raised" }
  /\ frame' = NoFrame
  /\ HandleLeave
  /\ UNCHANGED << self, config, writes >>

\* a caller other than the plugin calls MultiHandler().handle(query, *handlers)
Handle(q, hs) ==
  /\ frame.status = "none"
  /\ HandleEnter(q, hs, "direct")
  /\ UNCHANGED plvars

\* multi_handler.py:44: that caller has the list, or the exception
HandleDone ==
  /\ caller = "direct" /\ pc \in { "returned", "raised" }
  /\ HandleLeave
  /\ UNCHANGED plvars

\* ------------------------------------------------------------ specifications
Init ==
  /\ mh_handlers = Registry
  /\ pc = "idle"
  /\ caller = "direct"
  /\ query = << >>
  /\ handlers = { }
  /\ idx = 1
  /\ results = << >>
  /\ ret = << >>
  /\ calls = << >>
  /\ emitted = << >>
  /\ logged = << >>
  /\ config = EmptyConfig
  /\ self = PluginNew(EmptyConfig)
  /\ writes = 0
  /\ frame = NoFrame

\* one iteration of the loop of handle, or its return
MHStep ==
  \/ StepRaises /\ UNCHANGED plvars
  \/ StepNothing /\ UNCHANGED plvars
  \/ StepReturns /\ UNCHANGED plvars
  \/ MHReturn /\ UNCHANGED plvars

\* the plugin: configuration, restarts and trigger queries
Next ==
  \/ \E v \in BOOLEAN : SetShowEmptyPlaceholder(v)
  \/ \E k \in 1..Len(TriggerKeys), t \in KeywordTexts : SetTrigger(TriggerKeys[k], t)
  \/ Restart
  \/ \E u \in RawInputs : HandleTriggerQuery(u)
  \/ MHStep
  \/ BuildResultsReturn
  \/ BuildResultsRaise
  \/ QueryReturn

Spec == Init /\ [][Next]_vars

\* the MultiHandler called directly
NextMH ==
  \/ \E q \in Queries, hs \in Subsets : Handle(q, hs)
  \/ MHStep
  \/ HandleDone

SpecMH == Init /\ [][NextMH]_vars

\* ------------------------------------------------------------------ claims
\* helpers of the statements below
RangeOf(sq) == { sq[k] : k \in 1..Len(sq) }

PositionIn(sq, x) == CHOOSE k \in 1..Len(sq) : sq[k] = x

\* what the invoked interpreters returned, converted, in invocation order and,
\* within one interpreter, in emission order
Concatenation == [ k \in 1..Len(Flatten(emitted)) |-> to_query_result(Flatten(emitted)[k]) ]

\* the registered interpreters the subset of this call makes eligible, in
\* registry order
EligibleInOrder ==
  LET Keep(h) == handlers = { } \/ h \in handlers
  IN  SelectSeq(Registry, Keep)

CallOver == pc \in { "returned", "raised" }

\* C1: a handle call in which some eligible interpreters raise from their own
\* handle and the others return normally returns normally; its result is the
\* results of the interpreters that did not raise, sorted by order; each
\* exception is logged; and the eligible interpreters after a raising one are
\* still invoked.
C1_FaultsIsolated ==
  CallOver =>
    /\ pc = "returned"
    /\ Len(ret) = Len(Concatenation)
    /\ RangeOf(ret) = RangeOf(Concatenation)
    /\ \A i, j \in 1..Len(ret) : i < j => ret[i].order <= ret[j].order
    /\ logged = [ k \in 1..Len(logged) |->
                    SelectSeq(calls, LAMBDA c : c.outcome = "raised")[k].handler ]
    /\ Len(logged) = Len(SelectSeq(calls, LAMBDA c : c.outcome = "raised"))
    /\ [ k \in 1..Len(calls) |-> calls[k].handler ] = EligibleInOrder

\* C2: the list handle returns is sorted ascending by order and is a stable
\* permutation of the concatenation of the invoked interpreters' results: two
\* results of equal order keep the relative position they have in the
\* concatenation (registry order, then emission order).
C2_SortedStable ==
  pc = "returned" =>
    /\ Len(ret) = Len(Concatenation)
    /\ RangeOf(ret) = RangeOf(Concatenation)
    /\ \A i, j \in 1..Len(ret) :
         i < j =>
           /\ ret[i].order <= ret[j].order
           /\ ret[i].order = ret[j].order =>
                PositionIn(Concatenation, ret[i]) < PositionIn(Concatenation, ret[j])

\* a returned list holding two results of equal order from two interpreters
C2_Witness ==
  /\ pc = "returned"
  /\ Len(ret) = 2
  /\ ret[1].order = ret[2].order
  /\ ret[1].handler # ret[2].handler
  /\ ret[1].kind = "ok" /\ ret[2].kind = "ok"

\* C3: with a non-empty subset an interpreter is invoked if and only if its
\* class is in the subset; with an empty subset every registered interpreter
\* is invoked.
C3_SubsetDecidesInvocation ==
  CallOver =>
    \A h \in Classes :
      (\E k \in 1..Len(calls) : calls[k].handler = h)
        <=> (handlers = { } \/ h \in handlers)

\* C8: handle never propagates a fault to its caller, also when a returned
\* result's conversion raises or its order cannot be read or compared, and
\* the other interpreters' results are still returned.
C8_NothingPropagates ==
  /\ pc # "raised"
  /\ pc = "returned" =>
       \A k \in 1..Len(Flatten(emitted)) :
         Flatten(emitted)[k].kind = "ok" =>
           to_query_result(Flatten(emitted)[k]) \in RangeOf(ret)

\* C10: within one handle call every eligible interpreter is invoked exactly
\* once, with the call's query string, one after another in registry order;
\* and the registry stays what it was constructed as.
C10_OnceEachInOrder ==
  /\ mh_handlers = Registry
  /\ CallOver =>
       /\ [ k \in 1..Len(calls) |-> calls[k].handler ] = EligibleInOrder
       /\ \A k \in 1..Len(calls) : calls[k].query = query

\* getCalculateAnythingResults has resolved the input of the current query
Dispatched == frame.status \in { "aggregating", "done", "raised" }

\* the whitespace-delimited tokens of the current raw input: the first one and
\* the text after it
Tokens == split1(frame.user_input)

\* the interpreter subset bound to each trigger
HandlersOfKey(key) ==
  CASE key = "triggerTime" -> << "TimeQueryHandler" >>
    [] key = "triggerHex" -> << "Base16QueryHandler" >>
    [] key = "triggerBinary" -> << "Base2QueryHandler" >>
    [] key = "triggerDecimal" -> << "Base10QueryHandler" >>
    [] key = "triggerOctal" -> << "Base8QueryHandler" >>
    [] OTHER -> << "UnitsQueryHandler", "CalculatorQueryHandler",
                   "PercentagesQueryHandler" >>

AllAlpha(s) == s # << >> /\ \A k \in 1..Len(s) : isalpha(s[k])

IsPrefix(a, b) == Len(a) <= Len(b) /\ SubSeq(b, 1, Len(a)) = a

\* no other trigger is configured with the same keyword, letter case ignored
OnlyKey(key) ==
  \A k \in 1..Len(TriggerKeys) :
    TriggerKeys[k] # key => lower(self[TriggerKeys[k]]) # lower(self[key])

\* the first token equals no configured keyword, letter case ignored
MatchesNoKeyword ==
  \A k \in 1..Len(TriggerKeys) : lower(Tokens[1]) # lower(self[TriggerKeys[k]])

\* C4: for every alphabetic keyword K configured for one of the six triggers
\* (and for no other), in any letter case, an input that is not arithmetic and
\* whose first token equals K ignoring letter case is dispatched to the
\* interpreter subset bound to K, with the text after the first token, or the
\* empty string, as residual.
C4_KeywordDispatch ==
  Dispatched =>
    \A k \in 1..Len(TriggerKeys) :
      ( /\ AllAlpha(self[TriggerKeys[k]])
        /\ OnlyKey(TriggerKeys[k])
        /\ ~ is_calc_input(frame.user_input)
        /\ Tokens # << >>
        /\ lower(Tokens[1]) = lower(self[TriggerKeys[k]]) )
      => /\ frame.handlers = HandlersOfKey(TriggerKeys[k])
         /\ frame.query_string = IF Len(Tokens) > 1 THEN Tokens[2] ELSE << >>

\* C5: an input that is not arithmetic and whose first token does not start
\* with a letter, or matches no configured keyword, is dispatched to the
\* calculator family with the whole trimmed input, first token included, as
\* residual.
C5_FallbackKeepsInput ==
  ( /\ Dispatched
    /\ ~ is_calc_input(frame.user_input)
    /\ Tokens # << >>
    /\ (~ isalpha(Tokens[1][1]) \/ MatchesNoKeyword) )
  => /\ frame.handlers = HandlersOfKey("triggerCalculator")
     /\ frame.query_string = strip(frame.user_input)

\* C6: an input whose trimmed form the arithmetic pattern accepts is
\* dispatched to the calculator family, whatever keywords are configured,
\* with the trimmed input as residual.
C6_ArithmeticToCalculator ==
  (Dispatched /\ is_calc_input(frame.user_input))
  => /\ frame.handlers = HandlersOfKey("triggerCalculator")
     /\ frame.query_string = strip(frame.user_input)

\* C9: keyword matching is exact on the whole first token: an input whose
\* first token differs from a configured keyword K but starts with K, or is a
\* proper prefix of K, is not dispatched to the interpreter bound to K, and,
\* matching no keyword, goes to the calculator family as a no-match input.
C9_ExactMatch ==
  Dispatched =>
    \A k \in 1..Len(TriggerKeys) :
      ( /\ Tokens # << >>
        /\ lower(Tokens[1]) # lower(self[TriggerKeys[k]])
        /\ \/ IsPrefix(lower(self[TriggerKeys[k]]), lower(Tokens[1]))
           \/ IsPrefix(lower(Tokens[1]), lower(self[TriggerKeys[k]])) )
      => /\ TriggerKeys[k] # "triggerCalculator"
              => frame.handlers # HandlersOfKey(TriggerKeys[k])
         /\ MatchesNoKeyword => frame.handlers = HandlersOfKey("triggerCalculator")

\* the items of a query that ended without an exception
QueryOver == frame.status \in { "skipped", "done" }

IsPlaceholder(items, mode) ==
  Len(items) = 1 /\ items[1].kind = "no_result" /\ items[1].mode = mode

OneItemPerResult(items, rs) ==
  /\ Len(items) = Len(rs)
  /\ \A k \in 1..Len(rs) :
       /\ items[k].kind = "result"
       /\ items[k].index = k - 1
       /\ items[k].handler = rs[k].handler
       /\ items[k].emission = rs[k].emission

\* C7 as stated: whenever a query run through handleTriggerQuery yields no
\* aggregated result, a blank query or a set show-placeholder flag produces
\* exactly one placeholder item, keyed to the active mode; a query that is
\* not blank with the flag unset produces no item; and aggregated results
\* produce one item each, in order, and no placeholder.
C7_PlaceholderAsStated ==
  QueryOver =>
    IF frame.status = "done" /\ ret # << >>
    THEN OneItemPerResult(frame.items, ret)
    ELSE IF strip(frame.query_string) = << >> \/ self.showEmptyPlaceholder
    THEN /\ Len(frame.items) = 1
         /\ frame.items[1].kind = "no_result"
         /\ frame.status = "done" => frame.items[1].mode = frame.mode
    ELSE frame.items = << >>

\* C7, amended: an empty raw input with the show-placeholder flag unset is
\* not evaluated at all and produces no item, and nothing else is left
\* unevaluated; otherwise, when aggregation returns no result, a blank
\* residual query or a set flag produces exactly one placeholder item keyed
\* to the active mode and a residual that is not blank with the flag unset
\* produces no item; and aggregated results produce one item each, in
\* order, and no placeholder.
C7_Placeholder ==
  /\ frame.status = "skipped" =>
       /\ frame.user_input = << >> /\ ~ self.showEmptyPlaceholder
       /\ frame.items = << >> /\ ~ frame.added
  /\ Dispatched => ~ (frame.user_input = << >> /\ ~ self.showEmptyPlaceholder)
  /\ frame.status = "done" =>
       /\ frame.added <=> frame.items # << >>
       /\ IF ret # << >>
          THEN OneItemPerResult(frame.items, ret)
          ELSE IF strip(frame.query_string) = << >> \/ self.showEmptyPlaceholder
          THEN IsPlaceholder(frame.items, frame.mode)
          ELSE frame.items = << >>

\* the flag is unset, the input is a bare keyword, nothing was aggregated and
\* the placeholder of that keyword's mode is shown
C7_Witness ==
  /\ frame.status = "done"
  /\ ret = << >>
  /\ ~ self.showEmptyPlaceholder
  /\ frame.user_input # << >>
  /\ frame.mode = "time"
  /\ IsPlaceholder(frame.items, "time")

\* the value the store holds for the show-placeholder flag, the default when
\* nothing was written
StoredFlag ==
  IF config.show_empty_placeholder.has
    THEN config.show_empty_placeholder.value
    ELSE DEFAULT_SHOW_EMPTY_PLACEHOLDER

\* C11: the show-placeholder flag survives a restart: a Plugin constructed from
\* the store holds the value the setter wrote, true or false, and the default
\* only when nothing is stored
C11_FlagSurvivesRestart ==
  [][Restart => self'.showEmptyPlaceholder = StoredFlag]_vars

====
